---- MODULE Spec2Model ----
(***************************************************************************)
(* Model of the job queue and worker pool of ffmpeg-batch                  *)
(* (src/job_queue.py), with the handler contract of src/video_processor.py *)
(* and the callers of src/api.py.                                          *)
(*                                                                         *)
(* The pool runs on one asyncio event loop: code between two awaits is one *)
(* atomic step.  The awaits are queue.get (under wait_for) and             *)
(* run_in_executor in a worker, and gather in stop().  Handlers run on     *)
(* executor threads, which a cancelled await does not stop.                *)
(*                                                                         *)
(* asyncio.wait_for(self.queue.get(), timeout=1.0) runs queue.get in a     *)
(* task of its own wherever wait_for is built on ensure_future (Python up  *)
(* to 3.11): that task removes the job from the queue (queue_get), and the *)
(* worker goes on with the job some turns of the event loop later          *)
(* (worker_dequeue), in the order of the removals.  Other coroutines run   *)
(* in between.  Where wait_for awaits queue.get directly the two steps     *)
(* follow each other at once, which is one of the interleavings here.      *)
(* A worker that stop() cancels after its job was removed is resumed with  *)
(* the job: wait_for returns the result of the finished inner task instead *)
(* of raising CancelledError, so that worker runs the job and then leaves  *)
(* its loop, and stop() waits for it in gather.  The cancelled workers are *)
(* woken in the order of self.workers.                                     *)
(*                                                                         *)
(* start() and stop() are called one after the other (api.py calls them    *)
(* from the startup and the shutdown event).  Every other cancelled worker *)
(* runs to its end without another await, and the calls that can run in    *)
(* between (add_job, cancel_job, update_progress) change nothing such a    *)
(* worker reads or writes, so when no worker holds a removed job stop() is *)
(* one step of the model; otherwise it ends with stop_returns.             *)
(***************************************************************************)
EXTENDS Integers, Sequences, FiniteSets, TLC

\* ------------------------------------------------------------------ bounds
\* the number of jobs submitted in a run
MaxJobs == 3

\* the pool size W, the parameter of JobQueue(max_workers) (api.py passes 4)
max_workers == 2

\* ------------------------------------------------------- program constants

PENDING == "pending"
PROCESSING == "processing"
COMPLETED == "completed"
FAILED == "failed"
CANCELLED == "cancelled"

JobStatus == {PENDING, PROCESSING, COMPLETED, FAILED, CANCELLED}

None == "None"

\* the operations of VideoProcessor: methods that take (input_path,
\* output_path, ..., progress_callback)
ProcessorOperations ==
    {"transcode", "compress", "add_watermark", "generate_thumbnail",
     "extract_audio", "create_gif", "concatenate_videos", "trim_video"}

\* every attribute that getattr() finds on a VideoProcessor instance: the
\* operations, the other methods and the two path fields
ProcessorAttributes ==
    ProcessorOperations \cup
    {"get_video_info", "_build_thumbnail_filter",
     "_correct_thumbnail_extension", "_get_thumbnail_quality_args",
     "_execute_ffmpeg", "ffmpeg_path", "ffprobe_path"}

\* operation names the submissions of the model draw from
SubmittedOperations == {"transcode", "does_not_exist"}

\* what a handler run ends with: a success result, a failure result
\* ({"success": False, "error": ...}) or a raised exception
Outcomes == {"success", "failure", "raise"}

\* what the call operation_func(input_file, output_file, **parameters,
\* progress_callback=update_progress) can end with: an operation and
\* _execute_ffmpeg(cmd, input_path, progress_callback) take the call, every
\* other method has no progress_callback parameter and a path field is a
\* str, so the call raises TypeError
Returns(operation) ==
    IF operation \in ProcessorOperations \cup {"_execute_ffmpeg"}
    THEN Outcomes
    ELSE {"raise"}

\* operation names submitted where the lookup of line 199 is examined: an
\* operation, a method that is not one, and a path field
RegistryOperations == {"transcode", "_execute_ffmpeg", "ffmpeg_path"}

\* duration (seconds) get_video_info reports for an input
Durations == {10}

\* out_time_ms values (microseconds) on the progress stream
Markers == {5000000, 20000000}

\* the progress stream where one marker is enough
CallMarkers == {20000000}

\* operation names submitted where the lookup of the operation is not
\* examined
CallOperations == {"transcode"}

VARIABLES
    jobs,       \* self.jobs: job id -> Job; ids are 1, 2, ... in submission order
    queue,      \* self.queue: the job ids waiting for a worker
    workers,    \* self.workers: the worker tasks, each at one of its awaits
    running,    \* self.running
    stats,      \* self.stats
    threads,    \* the handler runs on executor threads, each with the
                \* duration it probed and the last percentage it reported
                \* (<<>> while it has reported none)
    ret,        \* the add_job or cancel_job call of the last step and the
                \* value it returned
    response    \* the request a route of api.py answered in the last step,
                \* and the status of its response

vars == <<jobs, queue, workers, running, stats, threads, ret, response>>

\* ----------------------------------------------------------------- helpers
Min(a, b) == IF a <= b THEN a ELSE b

JobIds == DOMAIN jobs

NoCall == [op |-> "none", id |-> 0, val |-> None]

\* ret while the return values are not observed
Unobserved == [op |-> "unobserved", id |-> 0, val |-> None]

\* the value of ret after a step that makes `call`
Record(call) == IF ret = Unobserved THEN Unobserved ELSE call

\* the value of response after a step that answers `request`
Respond(request) == IF response = Unobserved THEN Unobserved ELSE request

\* Job.__init__
NewJob(operation) ==
    [operation |-> operation,
     status |-> PENDING,
     progress |-> 0,
     started_at |-> FALSE,
     completed_at |-> FALSE,
     error |-> None,
     result |-> FALSE,
     dequeues |-> 0,
     invoked |-> 0]

\* mutant of Resolves: every name finds a handler
Resolves_AnyName(operation) == TRUE

\* getattr(processor, job.operation, None) is truthy
Resolves(operation) == operation \in ProcessorAttributes

\* str(ValueError(f"Unknown operation: {job.operation}"))
UnknownOperation(operation) == "Unknown operation: " \o operation

\* progress_pct of _execute_ffmpeg
ProgressPct(current_ms, total_duration) ==
    IF total_duration > 0
    THEN Min(100, (current_ms * 100) \div (total_duration * 1000000))
    ELSE 0

\* the jobs whose handler is running on an executor thread
InFlight == {th.job : th \in threads}

\* a worker task waiting in queue.get
Waiting == [pc |-> "waiting", job |-> 0]

\* a worker task that has left its loop
Ended == [pc |-> "ended", job |-> 0]

\* the workers whose job the inner task of wait_for has removed from the
\* queue and that have not gone on with it yet
Got == {w \in DOMAIN workers : workers[w].pc = "got"}

\* ------------------------------------------------------------------- Init
Init ==
    /\ jobs = <<>>
    /\ queue = <<>>
    /\ workers = <<>>
    /\ running = FALSE
    /\ stats = [total_jobs |-> 0, completed_jobs |-> 0,
                failed_jobs |-> 0, processing_jobs |-> 0]
    /\ threads = {}
    /\ ret = NoCall
    /\ response = Unobserved

\* ---------------------------------------------------------------- actions
\* mutant of put_nowait: the new job goes to the front of the queue
put_nowait_Front(q, id) == <<id>> \o q

\* self.queue.put_nowait(job)
put_nowait(q, id) == Append(q, id)

\* mutant of get_rest: the job is read and stays in the queue
get_rest_Peek(q) == q

\* what `await self.queue.get()` leaves in the queue
get_rest(q) == Tail(q)

\* mutant of NextId: the id of the latest job is drawn again
NextId_Repeated == IF Len(jobs) = 0 THEN 1 ELSE Len(jobs)

\* the id of the next Job: Job.__init__ draws a uuid4, taken here as a draw
\* that never repeats; the model hands out 1, 2, ... so that ids follow the
\* order of submission
NextId == Len(jobs) + 1

\* JobQueue.add_job of a new Job(input_file, operation, parameters), as
\* create_job and the other submission paths of api.py call it; `returned`
\* is the value the call returns
add_job(id, operation, returned) ==
    /\ Len(jobs) < MaxJobs
    /\ jobs' = (id :> NewJob(operation)) @@ jobs
    /\ queue' = put_nowait(queue, id)
    /\ stats' = [stats EXCEPT !.total_jobs = @ + 1]
    /\ returned = id
    /\ ret' = Record([op |-> "add_job", id |-> id, val |-> returned])
    /\ UNCHANGED <<workers, running, threads>>

\* the routes of api.py that submit one job for a request
Routes == {"create_job", "create_job_from_profile"}

\* the status of the response to a request whose input file does not exist:
\* both routes raise HTTPException(404); create_job raises it inside its
\* `try`, where `except Exception` catches it and raises HTTPException(500),
\* while create_job_from_profile re-raises it in `except HTTPException`
StatusCode(route) == IF route = "create_job" THEN 500 ELSE 404

\* mutant of create_job: the input file is looked at after add_job
create_job_FileCheckLast(route, input_exists, operation) ==
    \E returned \in 1..MaxJobs :
        /\ add_job(NextId, operation, returned)
        /\ response' = Respond([op |-> route, id |-> returned,
                                val |-> IF input_exists THEN 200
                                        ELSE StatusCode(route)])

\* create_job and create_job_from_profile of api.py: the request is answered
\* with an error when Path(request.input_file).exists() is false, else a
\* Job is made and handed to add_job, and the response carries its id
create_job(route, input_exists, operation) ==
    IF ~input_exists
    THEN /\ response' = Respond([op |-> route, id |-> 0,
                                 val |-> StatusCode(route)])
         /\ ret' = Record(NoCall)
         /\ UNCHANGED <<jobs, queue, workers, running, stats, threads>>
    ELSE \E returned \in 1..MaxJobs :
            /\ add_job(NextId, operation, returned)
            /\ response' = Respond([op |-> route, id |-> returned,
                                    val |-> 200])

\* mutants of Cancellable: a guard that lets finished jobs through, and one
\* that lets a running job through
Cancellable_AnyStatus(job) == job.status # CANCELLED

Cancellable_OrProcessing(job) == job.status \in {PENDING, PROCESSING}

\* cancel_job: `job.status == JobStatus.PENDING`
Cancellable(job) == job.status = PENDING

\* JobQueue.cancel_job; `returned` is the value the call returns
cancel_job(job_id, returned) ==
    /\ IF job_id \in JobIds /\ Cancellable(jobs[job_id])
       THEN /\ jobs' = [jobs EXCEPT ![job_id].status = CANCELLED]
            /\ returned = TRUE
       ELSE /\ jobs' = jobs
            /\ returned = FALSE
    /\ ret' = Record([op |-> "cancel_job", id |-> job_id, val |-> returned])
    /\ response' = Respond(NoCall)
    /\ UNCHANGED <<queue, workers, running, stats, threads>>

\* JobQueue.start
start ==
    /\ ret' = Record(NoCall)
    /\ response' = Respond(NoCall)
    /\ running \/ workers = <<>>
    /\ IF running
       THEN UNCHANGED <<jobs, queue, workers, running, stats, threads>>
       ELSE /\ running' = TRUE
            /\ workers' = workers \o [i \in 1..max_workers |-> Waiting]
            /\ UNCHANGED <<jobs, queue, stats, threads>>

\* mutant of Abandon: the cancellation is stored as the job's error
Abandon_ErrorStored(js, id) ==
    [js EXCEPT ![id].completed_at = TRUE, ![id].error = "cancelled"]

\* _process_job when CancelledError arrives at `await run_in_executor`:
\* `except Exception` does not catch it, only the finally block runs
Abandon(js, id) == [js EXCEPT ![id].completed_at = TRUE]

RECURSIVE AbandonAll(_, _)
AbandonAll(js, ids) ==
    IF ids = {} THEN js
    ELSE LET id == CHOOSE x \in ids : TRUE
         IN AbandonAll(Abandon(js, id), ids \ {id})

\* mutant of AbandonCount: one decrement for every cancelled worker
AbandonCount_EveryWorker(st, executing) ==
    [st EXCEPT !.processing_jobs = @ - Len(workers)]

\* the finally block of every _process_job that stop() cancels
AbandonCount(st, executing) ==
    [st EXCEPT !.processing_jobs = @ - Cardinality(executing)]

\* JobQueue.stop up to gather: every worker is cancelled at its await.  A
\* worker waiting for a job or for its handler ends (the handler goes on
\* running on its thread); a worker whose job was removed from the queue is
\* resumed with the job.  When no such worker is left gather returns and
\* self.workers is cleared
stop ==
    /\ ret' = Record(NoCall)
    /\ response' = Respond(NoCall)
    /\ IF ~running
       THEN UNCHANGED <<jobs, queue, workers, running, stats, threads>>
       ELSE LET executing == {workers[w].job :
                                w \in {x \in DOMAIN workers :
                                         workers[x].pc = "exec"}} IN
            /\ running' = FALSE
            /\ jobs' = AbandonAll(jobs, executing)
            /\ stats' = AbandonCount(stats, executing)
            /\ workers' = IF Got = {}
                          THEN <<>>
                          ELSE [w \in DOMAIN workers |->
                                  IF w \in Got THEN workers[w] ELSE Ended]
            /\ UNCHANGED <<queue, threads>>

\* JobQueue.stop after gather: the workers that were resumed with a job have
\* ended too, `self.workers.clear()`
stop_returns ==
    /\ ret' = Record(NoCall)
    /\ response' = Respond(NoCall)
    /\ ~running
    /\ workers # <<>>
    /\ \A w \in DOMAIN workers : workers[w] = Ended
    /\ workers' = <<>>
    /\ UNCHANGED <<jobs, queue, running, stats, threads>>

\* mutant of Loop: the worker loop ends after a job
Loop_Ends(w) == [workers EXCEPT ![w] = Ended]

\* `while self.running` at the top of the worker loop
Loop(w) ==
    IF running
    THEN [workers EXCEPT ![w] = Waiting]
    ELSE [workers EXCEPT ![w] = Ended]

\* mutant of Skipped: the worker does not look at the status
Skipped_Never(job) == FALSE

\* _worker: `if job.status == JobStatus.CANCELLED`
Skipped(job) == job.status = CANCELLED

\* _worker at `await asyncio.wait_for(self.queue.get(), timeout=1.0)`: the
\* queue holds a job and queue.get removes it for worker w
queue_get(w) ==
    /\ ret' = Record(NoCall)
    /\ response' = Respond(NoCall)
    /\ w \in DOMAIN workers
    /\ workers[w].pc = "waiting"
    /\ queue # <<>>
    /\ LET id == Head(queue) IN
        /\ queue' = get_rest(queue)
        /\ jobs' = [jobs EXCEPT ![id].dequeues = @ + 1]
        /\ workers' = [workers EXCEPT ![w] = [pc |-> "got", job |-> id]]
    /\ UNCHANGED <<running, stats, threads>>

\* the order in which the workers holding a removed job go on: the event
\* loop wakes them in the order of the removals; the workers stop() has
\* cancelled before they were woken are woken in the order of self.workers
MayResume(w) ==
    \/ \A v \in Got : workers[v].job >= workers[w].job
    \/ ~running /\ \A v \in Got : v >= w

\* _worker: wait_for returns the job; the cancelled check; the synchronous
\* head of _process_job up to `await loop.run_in_executor(...)`
worker_dequeue(w, total_duration) ==
    /\ ret' = Record(NoCall)
    /\ response' = Respond(NoCall)
    /\ w \in Got
    /\ MayResume(w)
    /\ LET id == workers[w].job
           job == jobs[id] IN
        /\ queue' = queue
        /\ IF Skipped(job)
           THEN /\ jobs' = jobs
                /\ workers' = Loop(w)
                /\ UNCHANGED <<stats, threads>>
           ELSE IF ~Resolves(job.operation)
           THEN /\ jobs' = [jobs EXCEPT ![id] =
                              [job EXCEPT !.status = FAILED,
                                          !.started_at = TRUE,
                                          !.error =
                                             UnknownOperation(job.operation),
                                          !.completed_at = TRUE]]
                /\ stats' = [stats EXCEPT !.failed_jobs = @ + 1]
                /\ workers' = Loop(w)
                /\ UNCHANGED threads
           ELSE /\ jobs' = [jobs EXCEPT ![id] =
                              [job EXCEPT !.status = PROCESSING,
                                          !.started_at = TRUE,
                                          !.invoked = @ + 1]]
                /\ stats' = [stats EXCEPT !.processing_jobs = @ + 1]
                /\ threads' = threads \cup
                                {[job |-> id, duration |-> total_duration,
                                  reported |-> <<>>]}
                /\ workers' = [workers EXCEPT ![w] =
                                 [pc |-> "exec", job |-> id]]
    /\ UNCHANGED running

\* update_progress: `job.progress = progress`
Stored(old, progress) == progress

\* update_progress, called by _execute_ffmpeg on the handler's thread for a
\* line `out_time_ms=<current_ms>` of the progress stream
update_progress(id, current_ms) ==
    /\ ret' = Record(NoCall)
    /\ response' = Respond(NoCall)
    /\ \E th \in threads :
        /\ th.job = id
        /\ LET progress_pct == ProgressPct(current_ms, th.duration) IN
            /\ threads' = (threads \ {th}) \cup
                             {[th EXCEPT !.reported = <<progress_pct>>]}
            /\ jobs' = [jobs EXCEPT ![id].progress = Stored(@, progress_pct)]
    /\ UNCHANGED <<queue, workers, running, stats>>

\* mutant of Finish: a handler that returns success without having reported
\* the full length counts as failed
Finish_NeedsFullProgress(job, outcome) ==
    IF outcome = "success" /\ job.progress = 100
    THEN [job EXCEPT !.status = COMPLETED,
                     !.result = TRUE,
                     !.completed_at = TRUE]
    ELSE [job EXCEPT !.status = FAILED,
                     !.error = "handler error",
                     !.completed_at = TRUE]

\* mutant of Finish: a failure resets the progress
Finish_ProgressReset(job, outcome) ==
    IF outcome = "success"
    THEN [job EXCEPT !.status = COMPLETED,
                     !.progress = 100,
                     !.result = TRUE,
                     !.completed_at = TRUE]
    ELSE [job EXCEPT !.status = FAILED,
                     !.progress = 0,
                     !.error = "handler error",
                     !.completed_at = TRUE]

\* _process_job after the await, the job: `if result.get("success")`, the
\* raise of a failure result, `except Exception` and the finally block.
\* job.error is str(e): the message the handler gave, in its failure result
\* or in its exception
Finish(job, outcome) ==
    IF outcome = "success"
    THEN [job EXCEPT !.status = COMPLETED,
                     !.progress = 100,
                     !.result = TRUE,
                     !.completed_at = TRUE]
    ELSE [job EXCEPT !.status = FAILED,
                     !.error = "handler error",
                     !.completed_at = TRUE]

\* mutant of Count: a success is not counted
Count_SuccessUncounted(st, outcome) ==
    IF outcome = "success"
    THEN [st EXCEPT !.processing_jobs = @ - 1]
    ELSE [st EXCEPT !.failed_jobs = @ + 1, !.processing_jobs = @ - 1]

\* _process_job after the await, the counters
Count(st, outcome) ==
    IF outcome = "success"
    THEN [st EXCEPT !.completed_jobs = @ + 1, !.processing_jobs = @ - 1]
    ELSE [st EXCEPT !.failed_jobs = @ + 1, !.processing_jobs = @ - 1]

\* _process_job after the await: the handler's result or exception reaches
\* the worker, then task_done and the loop condition of _worker
process_result(w, outcome) ==
    /\ ret' = Record(NoCall)
    /\ response' = Respond(NoCall)
    /\ w \in DOMAIN workers
    /\ workers[w].pc = "exec"
    /\ LET id == workers[w].job IN
        /\ id \in InFlight
        /\ outcome \in Returns(jobs[id].operation)
        /\ threads' = {th \in threads : th.job # id}
        /\ jobs' = [jobs EXCEPT ![id] = Finish(@, outcome)]
        /\ stats' = Count(stats, outcome)
    /\ workers' = Loop(w)
    /\ UNCHANGED <<queue, running>>

\* a handler whose worker was cancelled runs to its end on its thread; its
\* result is dropped
abandoned_handler_ends(id) ==
    /\ ret' = Record(NoCall)
    /\ response' = Respond(NoCall)
    /\ id \in InFlight
    /\ \A w \in DOMAIN workers : workers[w].job # id
    /\ threads' = {th \in threads : th.job # id}
    /\ UNCHANGED <<jobs, queue, workers, running, stats>>

Next ==
    \/ \E route \in Routes, operation \in SubmittedOperations :
          create_job(route, TRUE, operation)
    \/ \E job_id \in 1..MaxJobs, returned \in BOOLEAN :
          cancel_job(job_id, returned)
    \/ start
    \/ stop
    \/ stop_returns
    \/ \E w \in 1..max_workers : queue_get(w)
    \/ \E w \in 1..max_workers, d \in Durations : worker_dequeue(w, d)
    \/ \E id \in 1..MaxJobs, ms \in Markers : update_progress(id, ms)
    \/ \E w \in 1..max_workers, o \in Outcomes : process_result(w, o)
    \/ \E id \in 1..MaxJobs : abandoned_handler_ends(id)

Spec == Init /\ [][Next]_vars

\* The state after construction, return values and responses not observed
InitServing ==
    /\ jobs = <<>>
    /\ queue = <<>>
    /\ workers = <<>>
    /\ running = FALSE
    /\ stats = [total_jobs |-> 0, completed_jobs |-> 0,
                failed_jobs |-> 0, processing_jobs |-> 0]
    /\ threads = {}
    /\ ret = Unobserved
    /\ response = Unobserved

\* The pool as in Spec, the return values of add_job and cancel_job observed.
\* What a call returns and does to a job depends neither on job.progress
\* (C19) nor on job.operation: the progress streams carry one marker and the
\* submitted jobs name an operation
NextCalls ==
    \/ \E route \in Routes, operation \in CallOperations :
          create_job(route, TRUE, operation)
    \/ \E job_id \in 1..MaxJobs, returned \in BOOLEAN :
          cancel_job(job_id, returned)
    \/ start
    \/ stop
    \/ stop_returns
    \/ \E w \in 1..max_workers : queue_get(w)
    \/ \E w \in 1..max_workers, d \in Durations : worker_dequeue(w, d)
    \/ \E id \in 1..MaxJobs, ms \in CallMarkers : update_progress(id, ms)
    \/ \E w \in 1..max_workers, o \in Outcomes : process_result(w, o)
    \/ \E id \in 1..MaxJobs : abandoned_handler_ends(id)

SpecCalls == Init /\ [][NextCalls]_vars

\* The pool with start() and stop() as in Spec, return values not observed,
\* progress streams with one marker
NextPool ==
    \/ \E route \in Routes, operation \in SubmittedOperations :
          create_job(route, TRUE, operation)
    \/ \E job_id \in 1..MaxJobs, returned \in BOOLEAN :
          cancel_job(job_id, returned)
    \/ start
    \/ stop
    \/ stop_returns
    \/ \E w \in 1..max_workers : queue_get(w)
    \/ \E w \in 1..max_workers, d \in Durations : worker_dequeue(w, d)
    \/ \E id \in 1..MaxJobs, ms \in CallMarkers : update_progress(id, ms)
    \/ \E w \in 1..max_workers, o \in Outcomes : process_result(w, o)
    \/ \E id \in 1..MaxJobs : abandoned_handler_ends(id)

SpecPool == InitServing /\ [][NextPool]_vars

\* The pool with start() and stop() as in Spec, return values not observed,
\* every submitted job naming an operation, progress streams with both
\* markers
NextProgress ==
    \/ \E route \in Routes, operation \in CallOperations :
          create_job(route, TRUE, operation)
    \/ \E job_id \in 1..MaxJobs, returned \in BOOLEAN :
          cancel_job(job_id, returned)
    \/ start
    \/ stop
    \/ stop_returns
    \/ \E w \in 1..max_workers : queue_get(w)
    \/ \E w \in 1..max_workers, d \in Durations : worker_dequeue(w, d)
    \/ \E id \in 1..MaxJobs, ms \in Markers : update_progress(id, ms)
    \/ \E w \in 1..max_workers, o \in Outcomes : process_result(w, o)
    \/ \E id \in 1..MaxJobs : abandoned_handler_ends(id)

SpecProgress == InitServing /\ [][NextProgress]_vars

\* The pool while it serves: startup_event of api.py starts it, stop() is not
\* called, a waiting worker is resumed when the queue holds a job, and a
\* handler that was started returns.  Return values are not observed.
NextServing ==
    \/ \E route \in Routes, operation \in SubmittedOperations :
          create_job(route, TRUE, operation)
    \/ \E job_id \in 1..MaxJobs, returned \in BOOLEAN :
          cancel_job(job_id, returned)
    \/ start
    \/ \E w \in 1..max_workers : queue_get(w)
    \/ \E w \in 1..max_workers, d \in Durations : worker_dequeue(w, d)
    \/ \E id \in 1..MaxJobs, ms \in CallMarkers : update_progress(id, ms)
    \/ \E w \in 1..max_workers, o \in Outcomes : process_result(w, o)

Fairness ==
    /\ WF_vars(start /\ ~running)
    /\ \A w \in 1..max_workers :
          /\ WF_vars(queue_get(w))
          /\ WF_vars(\E d \in Durations : worker_dequeue(w, d))
          /\ WF_vars(\E o \in Outcomes : process_result(w, o))

SpecServing == InitServing /\ [][NextServing]_vars /\ Fairness

\* The API while the pool serves, with the responses of its routes and the
\* return values of add_job and cancel_job observed
\* and requests for input files that do not exist among the requests.  (Where
\* the responses are not observed such a request is a stuttering step.)
NextApi ==
    \/ \E route \in Routes, input_exists \in BOOLEAN,
          operation \in CallOperations :
          create_job(route, input_exists, operation)
    \/ \E job_id \in 1..MaxJobs, returned \in BOOLEAN :
          cancel_job(job_id, returned)
    \/ start
    \/ \E w \in 1..max_workers : queue_get(w)
    \/ \E w \in 1..max_workers, d \in Durations : worker_dequeue(w, d)
    \/ \E id \in 1..MaxJobs, ms \in CallMarkers : update_progress(id, ms)
    \/ \E w \in 1..max_workers, o \in Outcomes : process_result(w, o)

InitApi ==
    /\ jobs = <<>>
    /\ queue = <<>>
    /\ workers = <<>>
    /\ running = FALSE
    /\ stats = [total_jobs |-> 0, completed_jobs |-> 0,
                failed_jobs |-> 0, processing_jobs |-> 0]
    /\ threads = {}
    /\ ret = NoCall
    /\ response = NoCall

SpecApi == InitApi /\ [][NextApi]_vars

\* The pool while it serves, with names of processor attributes that are not
\* operations among the submitted operation names
NextRegistry ==
    \/ \E route \in Routes, operation \in RegistryOperations :
          create_job(route, TRUE, operation)
    \/ \E job_id \in 1..MaxJobs, returned \in BOOLEAN :
          cancel_job(job_id, returned)
    \/ start
    \/ \E w \in 1..max_workers : queue_get(w)
    \/ \E w \in 1..max_workers, d \in Durations : worker_dequeue(w, d)
    \/ \E id \in 1..MaxJobs, ms \in CallMarkers : update_progress(id, ms)
    \/ \E w \in 1..max_workers, o \in Outcomes : process_result(w, o)

SpecRegistry == InitServing /\ [][NextRegistry]_vars

\* ----------------------------------------------------- the output of a job
\* A path is the pair of what Path(p).with_suffix("") and Path(p).suffix
\* give; str(path) is the two joined.

\* str.lower() on the strings that occur below
Lower(str) ==
    CASE str = "JPG" -> "jpg"
      [] str = "PNG" -> "png"
      [] str = ".WEBP" -> ".webp"
      [] str = ".PNG" -> ".png"
      [] OTHER -> str

\* dict.get(key, default)
Get(dict, key, default) ==
    IF key \in DOMAIN dict THEN dict[key] ELSE default

\* the input file of the requests
InputFile == [name |-> "/data/input/clip", suffix |-> ".mp4"]

\* operations whose output path _generate_output_path derives differently
OutputOperations ==
    {"generate_thumbnail", "create_gif", "extract_audio", "transcode"}

\* the parameters of a request: none, or an image_format
ImageFormats == {"webp", "jpg", "jpeg", "png", "JPG", "PNG", "gif"}

RequestParameters ==
    {<<>>} \cup {[image_format |-> f] : f \in ImageFormats}

\* the output_file of a request: None (<<>>) or a path the caller chose
RequestOutputs ==
    {<<>>} \cup
    {<<[name |-> "/data/output/out", suffix |-> x]>> :
        x \in {".webp", ".jpg", ".jpeg", ".png", ".WEBP", ".PNG", ".mp4"}}

\* Job._generate_output_path; the timestamp is written "T"
generate_output_path(input_file, operation, parameters) ==
    LET stem == input_file.name \o "_" \o operation \o "_" \o "T" IN
    IF operation = "generate_thumbnail"
    THEN LET image_format == Get(parameters, "image_format", "webp")
             ext == Get([webp |-> "webp", jpg |-> "jpg",
                         jpeg |-> "jpg", png |-> "png"],
                        Lower(image_format), "webp")
         IN [name |-> stem, suffix |-> "." \o ext]
    ELSE IF operation = "create_gif"
    THEN [name |-> stem, suffix |-> ".gif"]
    ELSE IF operation = "extract_audio"
    THEN [name |-> stem,
          suffix |-> "." \o Get(parameters, "audio_format", "mp3")]
    ELSE [name |-> stem, suffix |-> input_file.suffix]

\* Job.__init__, the fields of a job that concern its output:
\* `output_file or self._generate_output_path(input_file, operation)`
OutputJob(operation, parameters, output_file) ==
    [operation |-> operation,
     parameters |-> parameters,
     output_file |-> IF output_file # <<>>
                     THEN output_file[1]
                     ELSE generate_output_path(InputFile, operation,
                                               parameters),
     status |-> PENDING,
     written |-> <<>>]

\* VideoProcessor._correct_thumbnail_extension
correct_thumbnail_extension(output_path, image_format) ==
    LET correct_ext == Get([webp |-> ".webp", jpg |-> ".jpg",
                            jpeg |-> ".jpg", png |-> ".png"],
                           Lower(image_format), ".webp")
    IN IF Lower(output_path.suffix) # correct_ext
       THEN [output_path EXCEPT !.suffix = correct_ext]
       ELSE output_path

\* the last element of the ffmpeg command line a handler builds: the path
\* ffmpeg writes.  generate_thumbnail corrects the extension of output_path
\* first, every other operation passes output_path on as it is
WrittenPath(job) ==
    IF job.operation = "generate_thumbnail"
    THEN correct_thumbnail_extension(
             job.output_file, Get(job.parameters, "image_format", "webp"))
    ELSE job.output_file

\* a job constructed from any request, before it is run
InitOutput ==
    /\ \E operation \in OutputOperations, parameters \in RequestParameters,
          output_file \in RequestOutputs :
          jobs = <<OutputJob(operation, parameters, output_file)>>
    /\ queue = <<>>
    /\ workers = <<>>
    /\ running = FALSE
    /\ stats = [total_jobs |-> 0, completed_jobs |-> 0,
                failed_jobs |-> 0, processing_jobs |-> 0]
    /\ threads = {}
    /\ ret = Unobserved
    /\ response = Unobserved

\* _process_job for a handler that succeeds: the handler has written its
\* output and the job is Completed
handler_succeeds(id) ==
    /\ id \in DOMAIN jobs
    /\ jobs[id].status = PENDING
    /\ jobs' = [jobs EXCEPT ![id].status = COMPLETED,
                            ![id].written = <<WrittenPath(jobs[id])>>]
    /\ UNCHANGED <<queue, workers, running, stats, threads, ret, response>>

\* _process_job for a handler that fails
handler_fails(id) ==
    /\ id \in DOMAIN jobs
    /\ jobs[id].status = PENDING
    /\ jobs' = [jobs EXCEPT ![id].status = FAILED]
    /\ UNCHANGED <<queue, workers, running, stats, threads, ret, response>>

NextOutput ==
    \/ \E id \in 1..MaxJobs : handler_succeeds(id)
    \/ \E id \in 1..MaxJobs : handler_fails(id)

SpecOutput == InitOutput /\ [][NextOutput]_vars

\* ------------------------------------------------------------------ claims
Terminal == {COMPLETED, FAILED, CANCELLED}

\* C1: once a job is Completed, Failed or Cancelled its status never changes
\* again, and a job that has left Pending never is Pending again, in every
\* step of add_job, cancel_job, start, stop and the workers.
C1_TerminalAbsorbing ==
    [][\A id \in JobIds :
         /\ id \in DOMAIN jobs'
         /\ jobs[id].status \in Terminal
              => jobs'[id].status = jobs[id].status
         /\ jobs[id].status # PENDING => jobs'[id].status # PENDING]_vars

\* a Cancelled job that a worker has dequeued, next to a Completed and a
\* Failed job, right after cancel_job was called on a job in a terminal state
C1_Witness ==
    /\ \E a, b, c \in JobIds :
        /\ jobs[a].status = CANCELLED /\ jobs[a].dequeues = 1
        /\ jobs[b].status = COMPLETED
        /\ jobs[c].status = FAILED
    /\ ret.op = "cancel_job"
    /\ ret.id \in JobIds
    /\ jobs[ret.id].status \in Terminal

\* C2: cancel_job(id) returns true exactly when the job exists and is
\* Pending, and then the job becomes Cancelled (nothing else changes);
\* otherwise it returns false and no job changes.
C2_CancelContract ==
    [][ret'.op = "cancel_job" =>
         LET id == ret'.id IN
         /\ ret'.val = TRUE <=> (id \in JobIds /\ jobs[id].status = PENDING)
         /\ ret'.val = TRUE =>
              jobs' = [jobs EXCEPT ![id].status = CANCELLED]
         /\ ret'.val = FALSE => jobs' = jobs]_vars

\* cancel_job has just returned false for a job that is Processing, and an
\* earlier call has cancelled another job
C2_Witness ==
    /\ ret.op = "cancel_job"
    /\ ret.val = FALSE
    /\ ret.id \in JobIds
    /\ jobs[ret.id].status = PROCESSING
    /\ \E id \in JobIds : jobs[id].status = CANCELLED

\* C3: a job is handed to one worker only: no two workers execute the same
\* job at a time, a job is dequeued at most once and its handler is invoked
\* at most once.
C3_ExclusiveExecution ==
    /\ \A v, w \in DOMAIN workers :
          (v # w /\ workers[v].pc = "exec" /\ workers[w].pc = "exec")
             => workers[v].job # workers[w].job
    /\ \A id \in JobIds : jobs[id].dequeues <= 1 /\ jobs[id].invoked <= 1
    /\ \A th1, th2 \in threads : th1.job = th2.job => th1 = th2

\* two workers execute two jobs at the same time
C3_Witness ==
    \E v, w \in DOMAIN workers :
        /\ v # w
        /\ workers[v].pc = "exec" /\ workers[w].pc = "exec"
        /\ jobs[workers[v].job].invoked = 1
        /\ jobs[workers[w].job].invoked = 1

\* C4: a job that cancel_job cancelled is never executed: it stays in the
\* store as Cancelled with progress 0, started_at unset and no handler
\* invoked for it, also after a worker has dequeued it; and every job that
\* is not cancelled still reaches Completed or Failed.
C4_CancelledNeverExecuted ==
    /\ [](\A id \in JobIds :
            jobs[id].status = CANCELLED =>
              /\ jobs[id].invoked = 0
              /\ jobs[id].progress = 0
              /\ ~jobs[id].started_at
              /\ id \notin InFlight)
    /\ [][\A id \in JobIds :
             jobs[id].status = CANCELLED =>
               /\ jobs'[id].status = CANCELLED
               /\ jobs'[id].invoked = 0]_vars
    /\ \A id \in 1..MaxJobs :
          (id \in JobIds) ~>
             (id \in JobIds
                /\ jobs[id].status \in {COMPLETED, FAILED, CANCELLED})

\* a worker has dequeued and skipped a cancelled job, and the jobs submitted
\* with it are Completed or Failed
C4_Witness ==
    /\ Len(jobs) = MaxJobs
    /\ \E id \in JobIds :
        /\ jobs[id].status = CANCELLED
        /\ jobs[id].dequeues = 1
        /\ \A other \in JobIds \ {id} :
              jobs[other].status \in {COMPLETED, FAILED}
    /\ \E id \in JobIds : jobs[id].status = COMPLETED

CountStatus(status) == Cardinality({id \in JobIds : jobs[id].status = status})

\* C5: while the pool serves, if no job is cancelled and no job fails then
\* from some point on all submitted jobs are Completed, completed_jobs is
\* their number, and failed_jobs and processing_jobs are 0.
C5_AllCompleted ==
    <>[]((\A id \in JobIds : jobs[id].status \notin {FAILED, CANCELLED})
           => /\ \A id \in JobIds : jobs[id].status = COMPLETED
              /\ stats.completed_jobs = Len(jobs)
              /\ stats.total_jobs = Len(jobs)
              /\ stats.failed_jobs = 0
              /\ stats.processing_jobs = 0)

\* all MaxJobs jobs are Completed and counted
C5_Witness ==
    /\ Len(jobs) = MaxJobs
    /\ \A id \in JobIds : jobs[id].status = COMPLETED
    /\ stats.completed_jobs = MaxJobs
    /\ running

\* C6: completed_jobs + failed_jobs + processing_jobs plus the numbers of
\* Pending and of Cancelled jobs in the store is total_jobs in every state.
C6_StatsInvariant ==
    stats.completed_jobs + stats.failed_jobs + stats.processing_jobs
      + CountStatus(PENDING) + CountStatus(CANCELLED) = stats.total_jobs

\* C7: processing_jobs >= 0 and completed_jobs + failed_jobs <= total_jobs
\* in every state.
C7_CounterBounds ==
    /\ stats.processing_jobs >= 0
    /\ stats.completed_jobs + stats.failed_jobs <= stats.total_jobs

\* stop() was called while a job was executing and another job had ended:
\* the counter of the executing job has been taken back
C7_Witness ==
    /\ ~running
    /\ \E id \in JobIds :
          jobs[id].status = PROCESSING /\ jobs[id].completed_at
    /\ stats.processing_jobs = 0
    /\ stats.completed_jobs + stats.failed_jobs > 0

\* C8: jobs leave the queue in submission order: when a job has been
\* dequeued every job submitted before it has been dequeued, and when it has
\* entered Processing every earlier job that is not cancelled has entered
\* Processing too.
C8_FifoDequeue ==
    \A a, b \in JobIds :
        a < b =>
          /\ jobs[b].dequeues >= 1 => jobs[a].dequeues >= 1
          /\ (jobs[b].started_at /\ jobs[a].status # CANCELLED)
                => jobs[a].started_at

\* C9: at most max_workers handler executions are in flight in every state.
C9_ConcurrencyBound == Cardinality(threads) <= max_workers

\* C10: a step in which a job becomes Failed stores its error, changes no
\* other job and ends no worker; and while the pool serves every Pending job
\* leaves Pending (it is executed, or cancelled by its caller).
C10_FailureIsolated ==
    /\ [][\A id \in JobIds :
             (jobs[id].status # FAILED /\ jobs'[id].status = FAILED) =>
               /\ jobs'[id].error # None
               /\ \A other \in JobIds \ {id} :
                     jobs'[other] = jobs[other]
               /\ Len(workers') = Len(workers)
               /\ \A w \in DOMAIN workers :
                     workers'[w].pc # "ended"]_vars
    /\ \A id \in 1..MaxJobs :
          (id \in JobIds /\ jobs[id].status = PENDING) ~>
             (id \in JobIds /\ jobs[id].status # PENDING)

\* a handler has failed, and a job submitted after the failed one has been
\* executed and is Completed
C10_Witness ==
    \E a, b \in JobIds :
        /\ a < b
        /\ jobs[a].status = FAILED /\ jobs[a].invoked = 1
        /\ jobs[a].error = "handler error"
        /\ jobs[b].status = COMPLETED

\* C11: a job whose operation name getattr does not find is Failed in the
\* step in which a worker goes on with it, with the error "Unknown operation:
\* <name>"; that step adds one to failed_jobs and leaves completed_jobs; no
\* handler is ever invoked for the job and its result is never set.
C11_UnknownOperationFails ==
    /\ [](\A id \in JobIds :
            jobs[id].operation \notin ProcessorAttributes =>
              /\ jobs[id].invoked = 0
              /\ ~jobs[id].result
              /\ id \notin InFlight
              /\ jobs[id].status \in {PENDING, CANCELLED, FAILED}
              /\ jobs[id].status = FAILED =>
                    jobs[id].error =
                      "Unknown operation: " \o jobs[id].operation)
    /\ [][\A id \in JobIds :
             (jobs[id].operation \notin ProcessorAttributes
                /\ jobs[id].status = PENDING
                /\ jobs'[id].status \notin {PENDING, CANCELLED}) =>
               /\ jobs'[id].status = FAILED
               /\ stats'.failed_jobs = stats.failed_jobs + 1
               /\ stats'.completed_jobs = stats.completed_jobs
               /\ stats'.processing_jobs = stats.processing_jobs
               /\ threads' = threads]_vars

\* a job with an unknown operation is Failed while a job submitted after it
\* runs
C11_Witness ==
    \E a, b \in JobIds :
        /\ a < b
        /\ jobs[a].operation = "does_not_exist"
        /\ jobs[a].status = FAILED
        /\ jobs[a].dequeues = 1
        /\ stats.failed_jobs = 1
        /\ jobs[b].status = PROCESSING

\* the last percentage the handler of job id has reported, 0 if it has
\* reported none or no handler runs for the job
LastReported(id) ==
    IF \E th \in threads : th.job = id /\ th.reported # <<>>
    THEN (CHOOSE th \in threads : th.job = id).reported[1]
    ELSE 0

\* C12: a Completed job has progress 100; a step that makes a job Failed
\* leaves its progress at the last value its handler reported (0 if none),
\* and the progress of a Failed job does not change afterwards.
C12_FinalProgress ==
    /\ [](\A id \in JobIds :
            jobs[id].status = COMPLETED => jobs[id].progress = 100)
    /\ [][\A id \in JobIds :
             /\ (jobs[id].status # FAILED /\ jobs'[id].status = FAILED)
                   => jobs'[id].progress = LastReported(id)
             /\ jobs[id].status = FAILED
                   => jobs'[id].progress = jobs[id].progress]_vars

\* a handler reported 50 and then failed, next to a Completed job and a job
\* that failed without a report
C12_Witness ==
    \E a, b, c \in JobIds :
        /\ jobs[a].status = FAILED /\ jobs[a].invoked = 1
        /\ jobs[a].progress = 50
        /\ jobs[b].status = COMPLETED /\ jobs[b].progress = 100
        /\ jobs[c].status = FAILED /\ jobs[c].progress = 0

\* C13: a Pending or Cancelled job has progress 0, a job has progress 100
\* only if it is Completed, and the progress of a Failed or Cancelled job
\* does not change.
C13_ProgressByStatus ==
    /\ [](\A id \in JobIds :
            /\ jobs[id].status \in {PENDING, CANCELLED}
                  => jobs[id].progress = 0
            /\ jobs[id].progress = 100 => jobs[id].status = COMPLETED)
    /\ [][\A id \in JobIds :
             jobs[id].status \in {FAILED, CANCELLED}
               => jobs'[id].progress = jobs[id].progress]_vars

\* C14: the progress of a job lies in [0,100] in every state and no step
\* decreases it, whatever markers the progress stream carries.
C14_ProgressMonotonic ==
    /\ [](\A id \in JobIds :
            jobs[id].progress >= 0 /\ jobs[id].progress <= 100)
    /\ [][\A id \in JobIds :
             jobs'[id].progress >= jobs[id].progress]_vars

\* C15: in every state a job with an error is Failed and a job with a result
\* is Completed.
C15_ErrorAndResult ==
    \A id \in JobIds :
        /\ jobs[id].error # None => jobs[id].status = FAILED
        /\ jobs[id].result => jobs[id].status = COMPLETED

\* a Failed job with its error, a Completed job with its result, and a job
\* that stop() cancelled while it was executing
C15_Witness ==
    \E a, b, c \in JobIds :
        /\ jobs[a].status = FAILED /\ jobs[a].error # None
        /\ jobs[b].status = COMPLETED /\ jobs[b].result
        /\ jobs[c].status = PROCESSING /\ jobs[c].completed_at
        /\ jobs[c].error = None /\ ~jobs[c].result

\* C16: in every state started_at is set exactly for the jobs that have
\* entered _process_job (status Processing, Completed or Failed), and
\* completed_at is set exactly for the Completed and the Failed jobs.
C16_Timestamps ==
    \A id \in JobIds :
        /\ jobs[id].started_at
              <=> jobs[id].status \in {PROCESSING, COMPLETED, FAILED}
        /\ jobs[id].completed_at
              <=> jobs[id].status \in {COMPLETED, FAILED}

\* C17: when stop() returns (self.workers is cleared) no job is
\* Processing: every job a worker was executing is Completed or Failed.
C17_StopDrains ==
    [][(workers # <<>> /\ workers' = <<>>) =>
         /\ \A id \in JobIds : jobs'[id].status # PROCESSING
         /\ \A w \in DOMAIN workers :
               workers[w].pc = "exec"
                 => jobs'[workers[w].job].status \in {COMPLETED, FAILED}]_vars

\* C18: a request whose input file does not exist is answered with an error
\* status, and the step that answers it changes neither the job store nor
\* the queue nor the counters; a request is answered with an error status
\* only in that case.
C18_MissingInputRejected ==
    [][response'.op \in Routes =>
         IF response'.val = 200
         THEN /\ Len(jobs') = Len(jobs) + 1
              /\ stats'.total_jobs = stats.total_jobs + 1
         ELSE /\ response'.val \in {404, 500}
              /\ jobs' = jobs
              /\ queue' = queue
              /\ stats' = stats]_vars

\* a request has just been rejected while the store holds a queued job and a
\* running job
C18_Witness ==
    /\ response.op \in Routes
    /\ response.val # 200
    /\ queue # <<>>
    /\ stats.total_jobs = 2
    /\ \E id \in JobIds : jobs[id].status = PROCESSING

\* what a caller sees of a job apart from its progress
Observable(job) == [job EXCEPT !.progress = 0]

\* the percentages a handler can report, with the two ends of the range
Reportable ==
    {0, 100} \cup {ProgressPct(ms, d) : ms \in Markers, d \in Durations}

\* C19: progress is observational.  Take a second run with the same
\* submissions, calls, schedule and handler outcomes whose handlers report
\* other values: in every state it differs from this run in job.progress
\* only.  Step by step: whatever progress p a job has in the second run,
\* cancel_job, the worker's cancelled check, the operation lookup and the
\* end of _process_job decide and store the same; and a step in which a
\* handler reports changes nothing but job.progress.
C19_ProgressObservational ==
    /\ [](\A id \in JobIds : \A p \in Reportable \ {jobs[id].progress} :
            LET job == jobs[id]
                other == [job EXCEPT !.progress = p] IN
            /\ Cancellable(other) <=> Cancellable(job)
            /\ Skipped(other) <=> Skipped(job)
            /\ Resolves(other.operation) <=> Resolves(job.operation)
            /\ id \in InFlight =>
                  \A o \in Outcomes :
                     Observable(Finish(other, o)) = Observable(Finish(job, o)))
    /\ [][(threads' # threads /\ {th.job : th \in threads'} = InFlight) =>
            /\ DOMAIN jobs' = DOMAIN jobs
            /\ \A id \in JobIds :
                  Observable(jobs'[id]) = Observable(jobs[id])
            /\ UNCHANGED <<queue, workers, running, stats>>
            /\ \A th \in threads' : \E old \in threads :
                  th.job = old.job /\ th.duration = old.duration]_vars

\* two handlers reported different values and ended the same way, and a
\* third reported nothing and succeeded
C19_Witness ==
    \E a, b, c \in JobIds :
        /\ jobs[a].status = FAILED /\ jobs[a].invoked = 1
        /\ jobs[b].status = FAILED /\ jobs[b].invoked = 1
        /\ jobs[a].progress = 50 /\ jobs[b].progress = 100
        /\ jobs[a].error = jobs[b].error
        /\ jobs[c].status = COMPLETED
        /\ stats.failed_jobs = 2 /\ stats.completed_jobs = 1

\* C20: add_job returns the id under which it stored the job, and that id is
\* the key of no job stored before: the store gains one entry and every
\* earlier entry stays as it was.
C20_UniqueIds ==
    [][ret'.op = "add_job" =>
         /\ ret'.val = ret'.id
         /\ ret'.val \notin JobIds
         /\ DOMAIN jobs' = JobIds \cup {ret'.val}
         /\ jobs'[ret'.val].status = PENDING
         /\ \A id \in JobIds : jobs'[id] = jobs[id]
         /\ response'.id = ret'.val]_vars

\* the MaxJobs-th job has just been added while the earlier ones are in
\* different states
C20_Witness ==
    /\ ret.op = "add_job"
    /\ ret.val = MaxJobs
    /\ Cardinality(JobIds) = MaxJobs
    /\ \E a, b \in JobIds :
          jobs[a].status = COMPLETED /\ jobs[b].status = CANCELLED

\* C21: a job whose operation getattr does not find never has status
\* Processing and its started_at is never set.
C21_UnresolvedSkipsProcessing ==
    \A id \in JobIds :
        jobs[id].operation \notin ProcessorAttributes =>
          /\ jobs[id].status # PROCESSING
          /\ ~jobs[id].started_at

\* C22: a job whose operation is not one of the eight supported operations
\* is never handed to the executor, never is Processing or Completed, and
\* when it has failed its error is the unknown-operation error.
C22_OnlyOperationsResolve ==
    \A id \in JobIds :
        jobs[id].operation \notin ProcessorOperations =>
          /\ jobs[id].invoked = 0
          /\ jobs[id].status \notin {PROCESSING, COMPLETED}
          /\ jobs[id].status = FAILED =>
                jobs[id].error = UnknownOperation(jobs[id].operation)

\* C24: in every state each counter is the matching count over the job
\* store: total_jobs the number of jobs, completed_jobs, failed_jobs and
\* processing_jobs the numbers of jobs with that status.
C24_CountersMatchStore ==
    /\ stats.total_jobs = Len(jobs)
    /\ stats.completed_jobs = CountStatus(COMPLETED)
    /\ stats.failed_jobs = CountStatus(FAILED)
    /\ stats.processing_jobs = CountStatus(PROCESSING)

\* C27: every request that is rejected for an input file that does not
\* exist is answered with status 404, through create_job as through
\* create_job_from_profile.
C27_MissingInputIs404 ==
    (response.op \in Routes /\ response.val # 200) => response.val = 404

\* C26: for every Completed job the path its handler wrote is
\* job.output_file, whether the caller supplied output_file or
\* _generate_output_path derived it.
C26_WrittenIsOutputFile ==
    \A id \in JobIds :
        jobs[id].status = COMPLETED =>
            jobs[id].written = <<jobs[id].output_file>>

\* the jobs in the queue
Queued == {queue[i] : i \in DOMAIN queue}

\* C23: only a job that is still in the queue is cancelled: a step that
\* makes a job Cancelled finds it in the queue, so a job removed from the
\* queue keeps its status until its worker executes it.
C23_DequeuedNotCancellable ==
    [][\A id \in JobIds :
         (jobs[id].status = PENDING /\ jobs'[id].status = CANCELLED)
            => id \in Queued]_vars

\* stop() has returned, or start() was never called
Stopped == ~running /\ workers = <<>>

====
